---- MODULE Spec2Model ----
(***************************************************************************)
(* A model of src/server.js: the single-room live poll backend.            *)
(*                                                                         *)
(* The program state is the module-level variables of server.js            *)
(* (currentPoll, previousPolls, endTimer, teacherSocketId), the timeouts   *)
(* pending in the event loop, and whether the process is still running.    *)
(* Every socket.io handler and the timeout callback is one action: Node    *)
(* runs each of them to completion on one event loop.                      *)
(*                                                                         *)
(* What the program sends out is recorded in two observation variables:    *)
(* `log` (the broadcasts to 'poll-room', in emission order) and `last`     *)
(* (the last call handled and the acknowledgment its callback received).   *)
(***************************************************************************)
EXTENDS Integers, Sequences, FiniteSets, TLC

VARIABLES
  currentPoll,      \* server.js:19   the active poll object, or NULL
  previousPolls,    \* server.js:20   snapshots of closed polls
  endTimer,         \* server.js:46   handle of the timeout armed last, or NoTimer
  teacherSocketId,  \* server.js:47   socket id of the registered teacher, or NoSocket
  timers,           \* timeouts pending in the event loop (handles)
  nextId,           \* number of the next poll object (stands for the fresh uuid)
  pollObjects,      \* the `active` field of every poll object created so far
  running,          \* FALSE once a handler has thrown (uncaught exception)
  log,              \* broadcasts emitted to 'poll-room', oldest first
  removedLog,       \* the student-removed broadcasts, oldest first
  admitted,         \* <<poll id, student id>> of every vote counted so far
  last,             \* the last call (or timeout) that was handled, and its acknowledgment
  env,              \* the inputs the environment draws from in this run
  aggIn,            \* input of the aggregation harness (SpecAgg), or NULL
  aggOut            \* output of the aggregation harness (SpecAgg), or NULL

vars == <<currentPoll, previousPolls, endTimer, teacherSocketId, timers, nextId,
          pollObjects, running, log, removedLog, admitted, last, env, aggIn, aggOut>>

-----------------------------------------------------------------------------
(* Bounds of the model.                                                    *)

MaxPolls == 2          \* polls created in a run with one student
CrowdPolls == 1        \* polls created in a run with two students, or with removals
HistPolls == 52        \* polls created in a run of SpecHistory
MaxRemovals == 1       \* student-removed broadcasts in a run
MaxAggVotes == 40      \* largest vote counter given to the aggregation harness
MaxAggSmall == 3       \* largest vote counter of the three-option harness inputs

(* Program constants.                                                      *)

HistoryLimit == 50     \* server.js:132
DefaultDuration == 60  \* server.js:30

NULL == [type |-> "null"]
NoTimer == 0
NoSocket == 0

OptionIds == {"0", "1", "2"}
Durations == {0, 1, -1} \* 0 stands for an absent (falsy) duration
OptionTexts == <<"A", "B">>
Sockets == {1, 2}      \* socket.id of two connections

-----------------------------------------------------------------------------
(* JavaScript Number arithmetic, as far as computeResults uses it:         *)
(* (o.votes / total) * 100 in IEEE-754 doubles, then Math.round.           *)
(*                                                                         *)
(* A positive double is [m, s]: five limbs m[1..5] in base 2^13 and a      *)
(* scale s, standing for (m[1]*2^52 + m[2]*2^39 + ... + m[5]) * 2^(-52-s). *)
(* m[2..5] hold the 52 fraction bits of the significand.  The operators    *)
(* are exact for vote counters below 2^13.                                 *)

LimbBase == 2 ^ 13

(* The one element of a singleton set.  {e(x) : x \in {v}} binds x to the  *)
(* value of v, so that e uses an intermediate result without computing it  *)
(* again at every occurrence.                                              *)
The(S) == CHOOSE x \in S : TRUE

Carry(limbs) ==
  The({LET l5 == m[5]
           l4 == m[4] + (l5 \div LimbBase)
           l3 == m[3] + (l4 \div LimbBase)
           l2 == m[2] + (l3 \div LimbBase)
           l1 == m[1] + (l2 \div LimbBase)
       IN  <<l1, l2 % LimbBase, l3 % LimbBase, l4 % LimbBase, l5 % LimbBase>> :
       m \in {limbs}})

DoubleZero == [m |-> <<0, 0, 0, 0, 0>>, s |-> 0]

(* The quotient r \div t and the remainder r % t of one division step.     *)
DivStep(r, t) == <<(r * LimbBase) \div t, (r * LimbBase) % t>>

(* v / t for integers 0 <= v <= t, t > 0: the quotient rounded to 53       *)
(* significant bits, to nearest, ties to even.  v * 2^s / t lies in [1,2); *)
(* long division gives its 52 fraction bits, the guard bit and whether a   *)
(* remainder is left (sticky).                                             *)
DoubleDiv(v, t) ==
  IF v = 0 THEN DoubleZero
  ELSE The({The({The({The({The({
         LET guard == (2 * q4[2]) \div t
             sticky == (2 * q4[2]) % t # 0
             up == guard = 1 /\ (sticky \/ q4[1] % 2 = 1)
         IN  [m |-> Carry(<<1, q1[1], q2[1], q3[1], q4[1] + (IF up THEN 1 ELSE 0)>>),
              s |-> s] :
         q4 \in {DivStep(q3[2], t)}}) :
         q3 \in {DivStep(q2[2], t)}}) :
         q2 \in {DivStep(q1[2], t)}}) :
         q1 \in {DivStep(v * 2 ^ s - t, t)}}) :
         s \in {k \in 0..13 : v * 2 ^ k >= t /\ (k = 0 \/ v * 2 ^ (k - 1) < t)}})

(* x * 100, rounded to 53 significant bits: the exact product has 59 bits *)
(* (leading limb below 128) or 60, so its low d = 6 or 7 bits are rounded  *)
(* away, to nearest, ties to even.                                         *)
DoubleMul100(x) ==
  IF x = DoubleZero THEN DoubleZero
  ELSE The({LET d == IF p[1] < 128 THEN 6 ELSE 7
                low == p[5] % 2 ^ d
                half == 2 ^ (d - 1)
                up == low > half \/ (low = half /\ (p[5] \div 2 ^ d) % 2 = 1)
            IN  [m |-> Carry(<<p[1], p[2], p[3], p[4],
                               p[5] - low + (IF up THEN 2 ^ d ELSE 0)>>),
                 s |-> x.s] :
            p \in {Carry(<<100 * x.m[1], 100 * x.m[2], 100 * x.m[3], 100 * x.m[4],
                           100 * x.m[5]>>)}})

(* Math.round: the integer part, plus one when the first fraction bit is   *)
(* set (a tie goes up).                                                    *)
MathRound(x) ==
  (x.m[1] \div 2 ^ x.s)
  + (IF x.s = 0 THEN x.m[2] \div (LimbBase \div 2) ELSE (x.m[1] \div 2 ^ (x.s - 1)) % 2)

-----------------------------------------------------------------------------
(* createPoll and computeResults.                                          *)

IndexString == <<"0", "1", "2", "3", "4", "5", "6", "7", "8", "9">>

RECURSIVE SumVotes(_)
SumVotes(options) ==
  IF options = <<>> THEN 0 ELSE Head(options).votes + SumVotes(Tail(options))

Percent(votes, total) ==
  IF total = 0 THEN 0
  ELSE The({MathRound(product) :
            product \in {DoubleMul100(quotient) : quotient \in {DoubleDiv(votes, total)}}})

computeResults(poll) ==
  LET total == SumVotes(poll.options)
  IN  [id       |-> poll.id,
       question |-> poll.question,
       options  |-> [i \in 1..Len(poll.options) |->
                       [id    |-> poll.options[i].id,
                        text  |-> poll.options[i].text,
                        votes |-> poll.options[i].votes,
                        pct   |-> Percent(poll.options[i].votes, total)]],
       total    |-> total]

createPoll(payload, id) ==
  [type        |-> "poll",
   id          |-> id,
   question    |-> payload.question,
   options     |-> [i \in 1..Len(payload.options) |->
                      [id |-> IndexString[i], text |-> payload.options[i], votes |-> 0]],
   duration    |-> IF payload.duration = 0 THEN DefaultDuration ELSE payload.duration,
   active      |-> TRUE,
   submissions |-> {}]

-----------------------------------------------------------------------------
(* Inbound payloads.  A payload is `present` or missing (undefined); a     *)
(* create-poll payload may lack its options array.  A poll id of 0 is any  *)
(* value that is no poll's uuid.                                           *)

MissingPayload == [present |-> FALSE]

CreatePayloads ==
  {[present |-> TRUE, hasOptions |-> TRUE, question |-> "Q", options |-> o, duration |-> d] :
     o \in env.optionLists, d \in env.durations}
  \cup {[present |-> TRUE, hasOptions |-> FALSE, question |-> "Q", options |-> <<>>,
         duration |-> 0]}
  \cup {MissingPayload}

VotePayloads ==
  {[present |-> TRUE, pollId |-> p, optionId |-> o, studentId |-> s] :
     p \in env.pollIds, o \in OptionIds, s \in env.students}
  \cup {MissingPayload}

RemovePayloads ==
  {[present |-> TRUE, studentId |-> s] : s \in env.students} \cup {MissingPayload}

(* Acknowledgments handed to the callback `cb`.                            *)
Failure(message) == [success |-> FALSE, message |-> message]
Success == [success |-> TRUE]
Thrown == [thrown |-> "TypeError"]

(* A call that carries no payload, made on the connection socket.id.       *)
Connection(socket) == [present |-> FALSE, socket |-> socket]

Call(op, payload, ack) == [op |-> op, payload |-> payload, ack |-> ack]

(* The program's variables as they stand at some point of a handler.       *)
ProgramState(poll, history, timer, pending) ==
  [currentPoll |-> poll, previousPolls |-> history, endTimer |-> timer, timers |-> pending]

(* io.to('poll-room').emit(event, ...): the broadcast is recorded, with    *)
(* the program state at the moment of the call (`during`), when the run    *)
(* observes the room.                                                      *)
Emit(l, event, during) ==
  IF env.record THEN Append(l, [event EXCEPT !.during = during]) ELSE l

Broadcast(name, snapshot, reason) ==
  [event |-> name, poll |-> snapshot, reason |-> reason, during |-> NULL]

(* An exception that leaves a handler is uncaught: server.js installs no   *)
(* handler for it, and Node ends the process.                              *)
Throw(op, payload) ==
  /\ running' = FALSE
  /\ last' = Call(op, payload, Thrown)
  /\ UNCHANGED <<currentPoll, previousPolls, endTimer, teacherSocketId, timers, nextId,
                 pollObjects, log, removedLog, admitted>>

-----------------------------------------------------------------------------
(* finishCurrentPoll(reason), server.js:126-139.  `pending` is the set of  *)
(* timeouts pending when it is called.                                     *)

(* Mutant: the timeout is not cancelled. *)
clearTimeout_Ignored(pending, timer) == pending

(* if (endTimer) clearTimeout(endTimer), server.js:68-70 and 135-137: the  *)
(* timeouts still pending afterwards.                                      *)
clearTimeout(pending, timer) == IF timer # NoTimer THEN pending \ {timer} ELSE pending

(* Mutant: shift() instead of pop(): the newest entry is dropped. *)
Trim_DropsNewest(history) ==
  IF Len(history) > HistoryLimit THEN Tail(history) ELSE history

(* The trim of previousPolls, server.js:132 *)
Trim(history) ==
  IF Len(history) > HistoryLimit THEN SubSeq(history, 1, Len(history) - 1) ELSE history

finishCurrentPoll(reason, pending) ==
  IF currentPoll = NULL
  THEN /\ timers' = pending
       /\ UNCHANGED <<currentPoll, previousPolls, endTimer, pollObjects, log>>
  ELSE LET closed == [currentPoll EXCEPT !.active = FALSE]
           history == Trim(<<computeResults(closed)>> \o previousPolls)
       IN  /\ pollObjects' = [pollObjects EXCEPT ![currentPoll.id] = FALSE]
           /\ previousPolls' = history
           /\ log' = Emit(log, Broadcast("poll-ended", computeResults(closed), reason),
                          ProgramState(closed, history, endTimer, pending))
           /\ currentPoll' = NULL
           /\ timers' = clearTimeout(pending, endTimer)
           /\ endTimer' = NoTimer

-----------------------------------------------------------------------------
(* The handlers.                                                           *)

(* socket.on('register-teacher'), server.js:55-57 *)
RegisterTeacher(socket) ==
  /\ running
  /\ teacherSocketId' = socket
  /\ last' = Call("register-teacher", Connection(socket), NULL)
  /\ UNCHANGED <<currentPoll, previousPolls, endTimer, timers, nextId, pollObjects,
                 running, log, removedLog, admitted, env, aggIn, aggOut>>

(* Mutant: create-poll without its guard. *)
CreateBlocked_Never == FALSE

(* The guard of create-poll, server.js:61 *)
CreateBlocked == currentPoll # NULL /\ currentPoll.active

(* socket.on('create-poll'), server.js:59-77 *)
CreatePoll(payload) ==
  /\ running
  /\ UNCHANGED <<env, aggIn, aggOut, teacherSocketId>>
  /\ IF CreateBlocked
     THEN /\ last' = Call("create-poll", payload, Failure("A poll is already active."))
          /\ UNCHANGED <<currentPoll, previousPolls, endTimer, timers, nextId,
                         pollObjects, running, log, removedLog, admitted>>
     ELSE IF ~payload.present \/ ~payload.hasOptions
     THEN Throw("create-poll", payload)
     ELSE LET poll == createPoll(payload, nextId)
              cleared == clearTimeout(timers, endTimer)
          IN  /\ nextId <= env.maxPolls
              /\ currentPoll' = poll
              /\ nextId' = nextId + 1
              /\ pollObjects' = pollObjects @@ (nextId :> TRUE)
              /\ log' = Emit(log, Broadcast("new-poll", computeResults(poll), "none"),
                             ProgramState(poll, previousPolls, endTimer, timers))
              /\ endTimer' = poll.id
              /\ timers' = cleared \cup {poll.id}
              /\ last' = Call("create-poll", payload,
                              [success |-> TRUE, poll |-> computeResults(poll)])
              /\ UNCHANGED <<previousPolls, running, removedLog, admitted>>

(* The checks of vote in their order, server.js:80-91 *)
VoteNoActivePoll(payload) ==
  currentPoll = NULL \/ ~currentPoll.active \/ currentPoll.id # payload.pollId

(* Mutant: vote without the check of submissions. *)
VoteAlreadyVoted_Never(payload) == FALSE

VoteAlreadyVoted(payload) == payload.studentId \in currentPoll.submissions

(* Mutant: an unknown option id is taken for the first option. *)
VoteOption_First(payload) ==
  IF \E i \in 1..Len(currentPoll.options) : currentPoll.options[i].id = payload.optionId
  THEN {i \in 1..Len(currentPoll.options) : currentPoll.options[i].id = payload.optionId}
  ELSE {1}

(* currentPoll.options.find(o => o.id === optionId), server.js:88 *)
VoteOption(payload) ==
  {i \in 1..Len(currentPoll.options) : currentPoll.options[i].id = payload.optionId}

(* Mutant: the option is looked up before submissions is tested. *)
VoteRejection_OptionFirst(payload) ==
  IF VoteNoActivePoll(payload) THEN "No active poll"
  ELSE IF VoteOption(payload) = {} THEN "Invalid option"
  ELSE IF VoteAlreadyVoted(payload) THEN "Already voted"
  ELSE "none"

VoteRejection(payload) ==
  IF VoteNoActivePoll(payload) THEN "No active poll"
  ELSE IF VoteAlreadyVoted(payload) THEN "Already voted"
  ELSE IF VoteOption(payload) = {} THEN "Invalid option"
  ELSE "none"

(* Mutant: the vote is counted and the voter not recorded. *)
CountVote_VoterNotRecorded(poll, i, studentId) ==
  [poll EXCEPT !.options[i].votes = @ + 1]

(* The mutation of an admitted vote, server.js:92-93 *)
CountVote(poll, i, studentId) ==
  [poll EXCEPT !.options[i].votes = @ + 1, !.submissions = @ \cup {studentId}]

(* socket.on('vote'), server.js:79-99 *)
Vote(payload) ==
  /\ running
  /\ UNCHANGED <<env, aggIn, aggOut, teacherSocketId>>
  /\ IF ~payload.present
     THEN Throw("vote", payload)
     ELSE IF VoteRejection(payload) # "none"
     THEN /\ last' = Call("vote", payload, Failure(VoteRejection(payload)))
          /\ UNCHANGED <<currentPoll, previousPolls, endTimer, timers, nextId,
                         pollObjects, running, log, removedLog, admitted>>
     ELSE LET i == CHOOSE j \in VoteOption(payload) :
                     \A k \in VoteOption(payload) : j <= k
              voted == CountVote(currentPoll, i, payload.studentId)
          IN  /\ currentPoll' = voted
              /\ log' = Emit(log, Broadcast("poll-update", computeResults(voted), "none"),
                             ProgramState(voted, previousPolls, endTimer, timers))
              /\ admitted' = admitted \cup {<<voted.id, payload.studentId>>}
              /\ last' = Call("vote", payload, Success)
              /\ UNCHANGED <<previousPolls, endTimer, timers, nextId, pollObjects,
                             running, removedLog>>

(* Mutant: end-poll-now without its guard. *)
EndBlocked_Never == FALSE

(* Mutant: end-poll-now is refused while no teacher is registered. *)
EndBlocked_NoTeacher == currentPoll = NULL \/ ~currentPoll.active \/ teacherSocketId = NoSocket

(* The guard of end-poll-now, server.js:103 *)
EndBlocked == currentPoll = NULL \/ ~currentPoll.active

(* socket.on('end-poll-now'), server.js:101-106 *)
EndPollNow ==
  /\ running
  /\ UNCHANGED <<env, aggIn, aggOut, teacherSocketId, nextId, running, removedLog, admitted>>
  /\ IF EndBlocked
     THEN /\ last' = Call("end-poll-now", MissingPayload, Failure("No active poll"))
          /\ UNCHANGED <<currentPoll, previousPolls, endTimer, timers, pollObjects, log>>
     ELSE /\ finishCurrentPoll("manual", timers)
          /\ last' = Call("end-poll-now", MissingPayload, Success)

(* Mutant: remove-student also takes the student out of submissions. *)
RemoveStudent_DropsVoter(payload) ==
  /\ running
  /\ UNCHANGED <<env, aggIn, aggOut, teacherSocketId>>
  /\ IF ~payload.present
     THEN Throw("remove-student", payload)
     ELSE /\ Len(removedLog) < env.maxRemovals
          /\ removedLog' = Append(removedLog, payload.studentId)
          /\ last' = Call("remove-student", payload, Success)
          /\ currentPoll' = IF currentPoll = NULL THEN NULL
                            ELSE [currentPoll EXCEPT !.submissions = @ \ {payload.studentId}]
          /\ UNCHANGED <<previousPolls, endTimer, timers, nextId,
                         pollObjects, running, log, admitted>>

(* socket.on('remove-student'), server.js:108-113 *)
RemoveStudent(payload) ==
  /\ running
  /\ UNCHANGED <<env, aggIn, aggOut, teacherSocketId>>
  /\ IF ~payload.present
     THEN Throw("remove-student", payload)
     ELSE /\ Len(removedLog) < env.maxRemovals
          /\ removedLog' = Append(removedLog, payload.studentId)
          /\ last' = Call("remove-student", payload, Success)
          /\ UNCHANGED <<currentPoll, previousPolls, endTimer, timers, nextId,
                         pollObjects, running, log, admitted>>

(* socket.on('get-current-poll'), server.js:115-118.  The `remaining` field *)
(* of the answer reads the clock, which the model does not have.            *)
GetCurrentPoll ==
  /\ running
  /\ last' = Call("get-current-poll", MissingPayload,
                  IF currentPoll = NULL THEN [poll |-> NULL]
                  ELSE [poll |-> computeResults(currentPoll),
                        active |-> currentPoll.active])
  /\ UNCHANGED <<currentPoll, previousPolls, endTimer, teacherSocketId, timers, nextId,
                 pollObjects, running, log, removedLog, admitted, env, aggIn, aggOut>>

(* Mutant: a disconnect clears the teacher slot whoever holds it. *)
ClearIfMatches_Always(slot, socket) == NoSocket

(* The test of disconnect, server.js:122 *)
ClearIfMatches(slot, socket) == IF socket = slot THEN NoSocket ELSE slot

(* socket.on('disconnect'), server.js:120-123 *)
Disconnect(socket) ==
  /\ running
  /\ teacherSocketId' = ClearIfMatches(teacherSocketId, socket)
  /\ last' = Call("disconnect", Connection(socket), NULL)
  /\ UNCHANGED <<currentPoll, previousPolls, endTimer, timers, nextId, pollObjects,
                 running, log, removedLog, admitted, env, aggIn, aggOut>>

(* The callback of setTimeout, server.js:72-74: a pending timeout fires.   *)
TimerFire(handle) ==
  /\ running
  /\ handle \in timers
  /\ finishCurrentPoll("timeout", timers \ {handle})
  /\ last' = Call("timeout", MissingPayload, NULL)
  /\ UNCHANGED <<env, aggIn, aggOut, teacherSocketId, nextId, running, removedLog, admitted>>

-----------------------------------------------------------------------------
(* The state after server.js has been loaded, server.js:19-20, 46-47.      *)

InitProgram ==
  /\ currentPoll = NULL
  /\ previousPolls = <<>>
  /\ endTimer = NoTimer
  /\ teacherSocketId = NoSocket
  /\ timers = {}
  /\ nextId = 1
  /\ pollObjects = <<>>
  /\ running = TRUE
  /\ log = <<>>
  /\ removedLog = <<>>
  /\ admitted = {}
  /\ last = Call("none", MissingPayload, NULL)

(* The inputs of a run: how many polls are created and how many students   *)
(* are removed, the poll ids, student ids, option texts and durations that *)
(* calls carry, the sockets that connect, and whether the broadcasts to    *)
(* the room are observed.                                                  *)
Environment(maxPolls, students, durations, maxRemovals) ==
  [maxPolls |-> maxPolls, pollIds |-> 0..maxPolls, students |-> students,
   optionLists |-> {OptionTexts}, durations |-> durations, maxRemovals |-> maxRemovals,
   sockets |-> {1}, record |-> TRUE]

(* A classroom session, every broadcast observed: several polls answered   *)
(* by one student, or fewer polls answered by two students, or fewer polls *)
(* of either duration with students being removed, or fewer polls with two *)
(* connections.                                                            *)
Init ==
  /\ InitProgram
  /\ env \in {Environment(MaxPolls, {"s1"}, {1}, 0),
              Environment(CrowdPolls, {"s1", "s2"}, {1}, 0),
              Environment(CrowdPolls, {"s1"}, Durations, MaxRemovals),
              [Environment(CrowdPolls, {"s1"}, {1}, 0) EXCEPT !.sockets = Sockets]}
  /\ aggIn = NULL
  /\ aggOut = NULL

Next ==
  \/ \E socket \in env.sockets : RegisterTeacher(socket)
  \/ \E payload \in CreatePayloads : CreatePoll(payload)
  \/ \E payload \in VotePayloads : Vote(payload)
  \/ EndPollNow
  \/ \E payload \in RemovePayloads : RemoveStudent(payload)
  \/ GetCurrentPoll
  \/ \E socket \in env.sockets : Disconnect(socket)
  \/ \E handle \in timers : TimerFire(handle)

Spec == Init /\ [][Next]_vars

(* The same program with the timeouts of the event loop run fairly: a      *)
(* pending timeout of a running process is eventually called.              *)
SpecFair == Spec /\ WF_vars(\E handle \in timers : TimerFire(handle))

(* A long session: many polls of one shape, votes on the first poll only,  *)
(* the room not observed.                                                  *)
InitHistory ==
  /\ InitProgram
  /\ env = [Environment(HistPolls, {"s1"}, {1}, MaxRemovals)
               EXCEPT !.pollIds = 0..1, !.record = FALSE]
  /\ aggIn = NULL
  /\ aggOut = NULL

SpecHistory == InitHistory /\ [][Next]_vars

(* computeResults on its own, server.js:36-44: a poll as createPoll makes  *)
(* it, with vote counters as the vote handler may have left them, is given *)
(* to computeResults once.                                                 *)
AggOptionLists == {<<"A", "B">>, <<"A", "B", "C">>}

AggCounters(n) == IF n = 2 THEN 0..MaxAggVotes ELSE 0..MaxAggSmall

WithVotes(poll, votes) ==
  [poll EXCEPT !.options = [i \in 1..Len(poll.options) |->
                              [poll.options[i] EXCEPT !.votes = votes[i]]]]

AggInputs ==
  UNION {{WithVotes(createPoll([present |-> TRUE, hasOptions |-> TRUE, question |-> "Q",
                                options |-> texts, duration |-> 0], 1), votes) :
            votes \in [1..Len(texts) -> AggCounters(Len(texts))]} :
         texts \in AggOptionLists}

Aggregate ==
  /\ aggIn # NULL
  /\ aggOut = NULL
  /\ aggOut' = computeResults(aggIn)
  /\ UNCHANGED <<currentPoll, previousPolls, endTimer, teacherSocketId, timers, nextId,
                 pollObjects, running, log, removedLog, admitted, last, env, aggIn>>

InitAgg ==
  /\ InitProgram
  /\ env = Environment(0, {}, {}, 0)
  /\ aggIn \in AggInputs
  /\ aggOut = NULL

NextAgg == Aggregate

SpecAgg == InitAgg /\ [][NextAgg]_vars

-----------------------------------------------------------------------------
(* Properties.  They speak of the program through its variables and what   *)
(* it sent out (log, last), in terms defined here.                         *)

PollIsActive == currentPoll # NULL /\ currentPoll.active

RECURSIVE Tally(_, _)
Tally(options, n) == IF n = 0 THEN 0 ELSE Tally(options, n - 1) + options[n].votes

VotesCounted(poll) == Tally(poll.options, Len(poll.options))

VotersAdmitted(id) == {pair \in admitted : pair[1] = id}

EventsOf(id) == SelectSeq(log, LAMBDA e : e.poll.id = id)

Events(name) == SelectSeq(log, LAMBDA e : e.event = name)

(* The last call was a vote by a student whose vote on that poll had been  *)
(* counted before, by an earlier call.                                     *)
RepeatedVote ==
  /\ last.op = "vote"
  /\ last.payload.present
  /\ <<last.payload.pollId, last.payload.studentId>> \in admitted
  /\ last.ack # Success

(* C1: while a poll is active, the sum of its options' vote counters       *)
(* equals the number of student ids in its submissions.                    *)
C1_VotesMatchSubmissions ==
  PollIsActive => VotesCounted(currentPoll) = Cardinality(currentPoll.submissions)

(* Two votes counted, and then a vote rejected. *)
C1_Witness ==
  /\ PollIsActive
  /\ Cardinality(currentPoll.submissions) = 2
  /\ last.op = "vote"
  /\ last.ack = Failure("Already voted")

(* C2 as claimed: a vote repeating a poll id and student id that were      *)
(* admitted before is always answered 'Already voted'.                     *)
C2_RepeatAlwaysAlreadyVoted ==
  RepeatedVote => last.ack = Failure("Already voted")

(* C2, amended: each poll counts at most one vote per student id, active   *)
(* or closed; a vote repeating an admitted poll id and student id is       *)
(* answered 'Already voted' while that poll is active and 'No active poll' *)
(* once it is closed, and in both cases no counter changes.                *)
C2_OneVotePerVoter ==
  /\ PollIsActive =>
       VotesCounted(currentPoll) = Cardinality(VotersAdmitted(currentPoll.id))
  /\ \A i \in 1..Len(log) :
       log[i].event = "poll-ended" =>
         log[i].poll.total = Cardinality(VotersAdmitted(log[i].poll.id))
  /\ RepeatedVote =>
       last.ack = Failure(IF PollIsActive /\ currentPoll.id = last.payload.pollId
                          THEN "Already voted" ELSE "No active poll")

(* The student who voted option "0" votes again, for option "1". *)
C2_Witness ==
  /\ RepeatedVote
  /\ last.ack = Failure("Already voted")
  /\ last.payload.optionId = "1"
  /\ currentPoll.options[1].votes = 1
  /\ currentPoll.options[2].votes = 0

(* C3: create-poll while a poll is active is answered with the failure     *)
(* 'A poll is already active.' and changes neither the poll, the history,  *)
(* the timer nor the broadcasts.                                           *)
C3_CreateWhileActiveChangesNothing ==
  [][\A payload \in CreatePayloads :
       (PollIsActive /\ CreatePoll(payload)) =>
         /\ last'.ack = Failure("A poll is already active.")
         /\ UNCHANGED <<currentPoll, previousPolls, endTimer, timers, log, nextId,
                        pollObjects>>]_vars

(* A second create-poll was refused while the poll held a vote. *)
C3_Witness ==
  /\ last.op = "create-poll"
  /\ last.ack = Failure("A poll is already active.")
  /\ PollIsActive
  /\ currentPoll.submissions # {}
  /\ endTimer = currentPoll.id
  /\ timers = {currentPoll.id}

(* C4: at most one poll object has active = true, and between the new-poll *)
(* broadcasts of two polls lies the poll-ended broadcast of the first.     *)
C4_AtMostOneActivePoll ==
  /\ Cardinality({id \in DOMAIN pollObjects : pollObjects[id]}) <= 1
  /\ \A i, j \in 1..Len(log) :
       (i < j /\ log[i].event = "new-poll" /\ log[j].event = "new-poll") =>
         \E k \in (i + 1)..(j - 1) :
           log[k].event = "poll-ended" /\ log[k].poll.id = log[i].poll.id

(* A second poll is active after the first was closed. *)
C4_Witness ==
  /\ PollIsActive
  /\ Len(Events("new-poll")) = 2
  /\ Len(Events("poll-ended")) = 1

Last(seq) == seq[Len(seq)]

PollEndedOf(id) == SelectSeq(log, LAMBDA e : e.event = "poll-ended" /\ e.poll.id = id)

HistoryOf(id) == SelectSeq(previousPolls, LAMBDA h : h.id = id)

TimeoutStep == \E handle \in timers : TimerFire(handle)

(* C5: a poll that is active is eventually closed (a poll-ended broadcast  *)
(* for it is emitted), when pending timeouts are run.                      *)
C5_EveryPollIsClosed ==
  \A id \in 1..MaxPolls :
    (PollIsActive /\ currentPoll.id = id) ~> (Len(PollEndedOf(id)) = 1)

(* C6: a poll that is no longer current has exactly one poll-ended         *)
(* broadcast and one history entry, equal to each other and carrying the   *)
(* counts of the poll's last snapshot; a poll that is current has none.    *)
(* The broadcast's reason is that of the step that closed the poll, and    *)
(* end-poll-now with no active poll fails and adds neither.                *)
C6_ClosedOnce ==
  \A id \in 1..(nextId - 1) :
    LET ended == PollEndedOf(id)
        events == EventsOf(id)
    IN  /\ Len(ended) = IF PollIsActive /\ currentPoll.id = id THEN 0 ELSE 1
        /\ Len(HistoryOf(id)) = Len(ended)
        /\ Len(ended) = 1 =>
             /\ HistoryOf(id)[1] = ended[1].poll
             /\ Last(events) = ended[1]
             /\ ended[1].poll.options = events[Len(events) - 1].poll.options

C6_CloseSteps ==
  /\ (~PollIsActive /\ EndPollNow) =>
       /\ last'.ack = Failure("No active poll")
       /\ UNCHANGED <<currentPoll, previousPolls, log>>
  /\ (PollIsActive /\ EndPollNow) =>
       /\ last'.ack = Success
       /\ Last(log').event = "poll-ended"
       /\ Last(log').poll.id = currentPoll.id
       /\ Last(log').reason = "manual"
  /\ (PollIsActive /\ TimeoutStep) =>
       /\ Last(log').event = "poll-ended"
       /\ Last(log').poll.id = currentPoll.id
       /\ Last(log').reason = "timeout"

C6_ClosedExactlyOnce == []C6_ClosedOnce /\ [][C6_CloseSteps]_vars

(* end-poll-now arrives after the timeout has closed the poll. *)
C6_Witness ==
  /\ last.op = "end-poll-now"
  /\ last.ack = Failure("No active poll")
  /\ log # <<>>
  /\ Last(log).event = "poll-ended"
  /\ Last(log).reason = "timeout"
  /\ Len(previousPolls) = 1

(* C7: the history never holds more than 50 snapshots, newest first; a     *)
(* close puts the closed poll's snapshot at the head, keeps the order of   *)
(* the others and drops the last one when there were 50; no other step     *)
(* changes the history.                                                    *)
C7_Bounded ==
  /\ Len(previousPolls) <= 50
  /\ \A i \in 1..(Len(previousPolls) - 1) : previousPolls[i].id > previousPolls[i + 1].id

C7_Steps ==
  IF PollIsActive /\ currentPoll' = NULL
  THEN LET kept == IF Len(previousPolls) = 50 THEN 49 ELSE Len(previousPolls)
       IN  /\ Len(previousPolls') = kept + 1
           /\ previousPolls'[1].id = currentPoll.id
           /\ previousPolls'[1].total = VotesCounted(currentPoll)
           /\ \A i \in 1..Len(currentPoll.options) :
                previousPolls'[1].options[i].votes = currentPoll.options[i].votes
           /\ SubSeq(previousPolls', 2, kept + 1) = SubSeq(previousPolls, 1, kept)
  ELSE previousPolls' = previousPolls

C7_HistoryBounded == []C7_Bounded /\ [][C7_Steps]_vars

(* The 51st close has evicted the snapshot of the first poll. *)
C7_Witness ==
  /\ Len(previousPolls) = 50
  /\ previousPolls[1].id = 51
  /\ previousPolls[50].id = 2

(* C8: the acknowledgment of a vote is the first failing check, in the     *)
(* order poll id, submissions, option.                                     *)
ExpectedVoteAck(payload) ==
  IF ~PollIsActive \/ currentPoll.id # payload.pollId THEN Failure("No active poll")
  ELSE IF payload.studentId \in currentPoll.submissions THEN Failure("Already voted")
  ELSE IF \A i \in 1..Len(currentPoll.options) : currentPoll.options[i].id # payload.optionId
       THEN Failure("Invalid option")
  ELSE Success

C8_VoteChecksInOrder ==
  [][\A payload \in VotePayloads :
       (payload.present /\ Vote(payload)) => last'.ack = ExpectedVoteAck(payload)]_vars

(* A student who has voted names an option that does not exist, while the  *)
(* second poll is active and the first is closed.                          *)
C8_Witness ==
  /\ PollIsActive
  /\ currentPoll.id = 2
  /\ last.op = "vote"
  /\ last.payload.present
  /\ last.payload.pollId = 2
  /\ last.payload.optionId = "2"
  /\ last.payload.studentId \in currentPoll.submissions
  /\ last.ack = Failure("Already voted")

(* The broadcasts of one poll: a new-poll with total 0, then poll-updates  *)
(* with totals 1, 2, 3, ..., then, once the poll is closed, one poll-ended *)
(* whose total is the number of votes admitted, and nothing after it.      *)
C9_StreamShape ==
  \A id \in 1..(nextId - 1) :
    LET events == EventsOf(id)
        closed == ~(currentPoll # NULL /\ currentPoll.id = id)
        updates == IF closed THEN Len(events) - 2 ELSE Len(events) - 1
    IN  /\ Len(events) >= (IF closed THEN 2 ELSE 1)
        /\ events[1].event = "new-poll"
        /\ events[1].poll.total = 0
        /\ \A i \in 1..updates :
             /\ events[i + 1].event = "poll-update"
             /\ events[i + 1].poll.total = i
        /\ updates = Cardinality(VotersAdmitted(id))
        /\ closed =>
             /\ Last(events).event = "poll-ended"
             /\ Last(events).poll.total = updates

(* A step that broadcasts does so with every state change of the step      *)
(* applied: the program state at the emit is the state the step ends in.   *)
C9_EmitAfterMutation ==
  log' # log =>
    Last(log').during = ProgramState(currentPoll', previousPolls', endTimer', timers')

(* C9: the broadcasts of each poll are new-poll, the poll-updates in the   *)
(* order of the admitted votes, then one poll-ended, and every broadcast   *)
(* is emitted after all state changes of its transition have been applied. *)
C9_BroadcastsAfterMutation == []C9_StreamShape /\ [][C9_EmitAfterMutation]_vars

RoundHalfUp(n, d) == (2 * n + d) \div (2 * d)

(* C10: computeResults gives total = the sum of the counters and, option   *)
(* by option in the original order, the same id, text and votes, with      *)
(* pct = round(votes / total * 100), half up, when total > 0 and 0 when    *)
(* total = 0; every pct is an integer in 0..100.                           *)
C10_ResultsAsClaimed ==
  aggOut # NULL =>
    LET total == VotesCounted(aggIn)
    IN  /\ aggOut.total = total
        /\ Len(aggOut.options) = Len(aggIn.options)
        /\ \A i \in 1..Len(aggIn.options) :
             /\ aggOut.options[i].id = aggIn.options[i].id
             /\ aggOut.options[i].text = aggIn.options[i].text
             /\ aggOut.options[i].votes = aggIn.options[i].votes
             /\ aggOut.options[i].pct \in 0..100
             /\ aggOut.options[i].pct =
                  IF total > 0 THEN RoundHalfUp(100 * aggIn.options[i].votes, total) ELSE 0

RECURSIVE PctSum(_, _)
PctSum(options, n) == IF n = 0 THEN 0 ELSE PctSum(options, n - 1) + options[n].pct

(* C11: the percentages of a snapshot with total > 0 sum to 99 or 100, and *)
(* the counters 3, 1, 0 give the percentages 75, 25, 0.                    *)
C11_PercentagesSumTo100 ==
  (aggOut # NULL /\ aggOut.total > 0) =>
    /\ PctSum(aggOut.options, Len(aggOut.options)) \in {99, 100}
    /\ (Len(aggIn.options) = 3 /\ aggIn.options[1].votes = 3
          /\ aggIn.options[2].votes = 1 /\ aggIn.options[3].votes = 0) =>
         /\ aggOut.options[1].pct = 75
         /\ aggOut.options[2].pct = 25
         /\ aggOut.options[3].pct = 0

IsFailure(ack) == DOMAIN ack = {"success", "message"} /\ ~ack.success

(* C12: a create-poll whose payload is missing or has no options, and a    *)
(* vote whose payload is missing, are answered with a failure              *)
(* acknowledgment, raise no exception and leave the active poll, the       *)
(* history and the timer unchanged.                                        *)
C12_MalformedFailClosed ==
  [][/\ \A payload \in CreatePayloads :
          ((~payload.present \/ ~payload.hasOptions) /\ CreatePoll(payload)) =>
            /\ IsFailure(last'.ack)
            /\ running'
            /\ UNCHANGED <<currentPoll, previousPolls, endTimer, timers>>
     /\ Vote(MissingPayload) =>
          /\ IsFailure(last'.ack)
          /\ running'
          /\ UNCHANGED <<currentPoll, previousPolls, endTimer, timers>>]_vars

C13_SlotHoldsOne == teacherSocketId \in {NoSocket} \cup env.sockets

C13_SlotSteps ==
  /\ \A c \in env.sockets : RegisterTeacher(c) => teacherSocketId' = c
  /\ \A d \in env.sockets :
       Disconnect(d) =>
         teacherSocketId' = IF teacherSocketId = d THEN NoSocket ELSE teacherSocketId
  /\ last'.op \notin {"register-teacher", "disconnect"} => UNCHANGED teacherSocketId

(* C13: the teacher slot holds no or one connection id; register-teacher   *)
(* from c sets it to c whatever it held, a disconnect of d clears it only  *)
(* when it holds d, and no other step changes it.                          *)
C13_LastRegistrantWins == []C13_SlotHoldsOne /\ [][C13_SlotSteps]_vars

(* Connection 1 disconnects while connection 2 holds the slot. *)
C13_Witness ==
  /\ last.op = "disconnect"
  /\ last.payload.socket = 1
  /\ teacherSocketId = 2

C14_OnlyOwnTimerPending == timers \subseteq (IF PollIsActive THEN {currentPoll.id} ELSE {})

C14_TimeoutSteps ==
  /\ \A handle \in timers :
       TimerFire(handle) =>
         /\ PollIsActive
         /\ handle = currentPoll.id
         /\ Last(log').event = "poll-ended"
         /\ Last(log').poll.id = handle
         /\ Last(log').reason = "timeout"
  /\ (log' # log /\ Last(log').reason = "timeout") => last'.op = "timeout"
  /\ (PollIsActive /\ EndPollNow) => timers' = {}

(* C14: the only timeout that can be pending is the one armed when the     *)
(* active poll was created, and none is pending while no poll is active:   *)
(* a manual close cancels the poll's timeout, so it never fires on a later *)
(* poll or on no poll; a timeout closes the poll it was armed for.         *)
C14_TimerClosesOnlyItsPoll == []C14_OnlyOwnTimerPending /\ [][C14_TimeoutSteps]_vars

(* The first poll was closed manually and the second by its timeout. *)
C14_Witness ==
  /\ last.op = "timeout"
  /\ Len(log) >= 4
  /\ Len(PollEndedOf(1)) = 1
  /\ PollEndedOf(1)[1].reason = "manual"
  /\ Last(log).event = "poll-ended"
  /\ Last(log).poll.id = 2
  /\ Last(log).reason = "timeout"
  /\ timers = {}

(* C15: when poll-ended is broadcast the poll has been marked inactive,    *)
(* its snapshot is at the head of the history and its timer has been       *)
(* cancelled, while the poll reference is still held; the reference is     *)
(* discarded after the broadcast.                                          *)
C15_CloseOrder ==
  [][(log' # log /\ Last(log').event = "poll-ended") =>
       LET at == Last(log').during
       IN  /\ at.currentPoll # NULL
           /\ ~at.currentPoll.active
           /\ at.previousPolls[1] = Last(log').poll
           /\ at.endTimer = NoTimer
           /\ at.timers = {}
           /\ currentPoll' = NULL]_vars

C16_TimerState ==
  /\ Cardinality(timers) <= 1
  /\ timers = (IF PollIsActive THEN {currentPoll.id} ELSE {})
  /\ endTimer = (IF PollIsActive THEN currentPoll.id ELSE NoTimer)

C16_TimerSteps ==
  /\ (PollIsActive /\ currentPoll' = NULL) => (timers' = {} /\ endTimer' = NoTimer)
  /\ (last'.op = "create-poll" /\ DOMAIN last'.ack = {"success", "poll"}) =>
       (timers' = {last'.ack.poll.id} /\ endTimer' = last'.ack.poll.id)

(* C16: between handlers at most one timeout is pending, and one is        *)
(* pending exactly when a poll is active, the one armed at that poll's     *)
(* creation; a close leaves none and a null handle, a successful create    *)
(* leaves exactly one.                                                     *)
C16_TimerIffActive == []C16_TimerState /\ [][C16_TimerSteps]_vars

(* The second poll has been created after the first was closed by its      *)
(* timeout, and has been voted on.                                         *)
C16_Witness ==
  /\ PollIsActive
  /\ currentPoll.id = 2
  /\ currentPoll.submissions # {}
  /\ timers = {2}
  /\ endTimer = 2
  /\ Len(PollEndedOf(1)) = 1
  /\ PollEndedOf(1)[1].reason = "timeout"

(* C17: every poll that create-poll creates has a positive duration, the   *)
(* one its payload gives or else 60.                                       *)
C17_DurationPositive ==
  /\ [](PollIsActive => currentPoll.duration > 0)
  /\ [][\A payload \in CreatePayloads :
          (~PollIsActive /\ CreatePoll(payload) /\ currentPoll' # NULL) =>
            currentPoll'.duration =
              IF payload.duration # 0 THEN payload.duration ELSE DefaultDuration]_vars

(* C18: a vote that fails a check (no active poll with that id, already    *)
(* voted, invalid option) is answered with that failure and changes        *)
(* neither the counters, the submissions, the history nor the timer, and   *)
(* broadcasts nothing; after 'Invalid option' the student is not in        *)
(* submissions; a vote carrying another poll's id leaves the active poll   *)
(* as it is.                                                               *)
C18_RejectedVoteChangesNothing ==
  [][\A payload \in VotePayloads :
       (payload.present /\ Vote(payload)) =>
         /\ ExpectedVoteAck(payload) # Success =>
              /\ last'.ack = ExpectedVoteAck(payload)
              /\ UNCHANGED <<currentPoll, previousPolls, endTimer, timers, log, admitted>>
         /\ ExpectedVoteAck(payload) = Failure("Invalid option") =>
              payload.studentId \notin currentPoll'.submissions
         /\ (PollIsActive /\ payload.pollId # currentPoll.id) =>
              /\ last'.ack = Failure("No active poll")
              /\ currentPoll' = currentPoll]_vars

(* A student who has not voted names an option that does not exist, after  *)
(* another student's vote was counted.                                     *)
C18_Witness ==
  /\ PollIsActive
  /\ last.op = "vote"
  /\ last.ack = Failure("Invalid option")
  /\ currentPoll.submissions # {}
  /\ last.payload.studentId \notin currentPoll.submissions
  /\ Len(Events("poll-update")) = 1

Removed == {removedLog[i] : i \in 1..Len(removedLog)}

(* C19: remove-student broadcasts student-removed for the student id and   *)
(* acknowledges success, with or without an active poll, and changes       *)
(* neither the active poll, the history, the timer nor the teacher slot;   *)
(* a removed student's vote is admitted or rejected like anyone's.         *)
C19_RemoveOnlyBroadcasts ==
  [][/\ \A payload \in RemovePayloads :
          (payload.present /\ RemoveStudent(payload)) =>
            /\ last'.ack = Success
            /\ removedLog' = Append(removedLog, payload.studentId)
            /\ UNCHANGED <<currentPoll, previousPolls, endTimer, timers, teacherSocketId,
                           log, admitted>>
     /\ \A payload \in VotePayloads :
          (payload.present /\ payload.studentId \in Removed /\ Vote(payload)) =>
            /\ last'.ack = ExpectedVoteAck(payload)
            /\ last'.ack = Success => payload.studentId \in currentPoll'.submissions]_vars

(* A student was removed while a poll was active, and then voted. *)
C19_Witness ==
  /\ PollIsActive
  /\ last.op = "vote"
  /\ last.ack = Success
  /\ last.payload.studentId \in Removed
  /\ last.payload.studentId \in currentPoll.submissions

ConnectionOps == {"register-teacher", "disconnect"}

(* C20: register-teacher and disconnect change nothing but the teacher     *)
(* slot, no other step changes the slot, and what create-poll, vote,       *)
(* end-poll-now and get-current-poll answer and do is decided by the poll  *)
(* state and the payload alone, whatever the slot holds: create-poll       *)
(* succeeds exactly when no poll is active and end-poll-now exactly when   *)
(* one is.                                                                 *)
C20_IndependentOfTeacherSlot ==
  [][/\ last'.op \in ConnectionOps =>
          UNCHANGED <<currentPoll, previousPolls, endTimer, timers, log, nextId,
                      pollObjects, admitted, removedLog, running>>
     /\ last'.op \notin ConnectionOps => UNCHANGED teacherSocketId
     /\ \A payload \in CreatePayloads :
          (payload.present /\ payload.hasOptions /\ CreatePoll(payload)) =>
            IF PollIsActive
            THEN last'.ack = Failure("A poll is already active.") /\ currentPoll' = currentPoll
            ELSE /\ last'.ack = [success |-> TRUE, poll |-> computeResults(currentPoll')]
                 /\ currentPoll' = createPoll(payload, nextId)
                 /\ Last(log').event = "new-poll"
     /\ EndPollNow =>
          IF PollIsActive
          THEN /\ last'.ack = Success
               /\ currentPoll' = NULL
               /\ Last(log').event = "poll-ended"
               /\ Last(log').poll = computeResults(currentPoll)
          ELSE last'.ack = Failure("No active poll") /\ UNCHANGED <<currentPoll, log>>
     /\ \A payload \in VotePayloads :
          (payload.present /\ Vote(payload)) =>
            /\ last'.ack = ExpectedVoteAck(payload)
            /\ last'.ack # Success => UNCHANGED <<currentPoll, log>>
     /\ GetCurrentPoll =>
          /\ UNCHANGED <<currentPoll, previousPolls, endTimer, timers, log>>
          /\ last'.ack.poll =
               IF currentPoll = NULL THEN NULL ELSE computeResults(currentPoll)]_vars

(* A poll was created, voted on and ended by end-poll-now while no         *)
(* connection was registered as the teacher.                               *)
C20_Witness ==
  /\ last.op = "end-poll-now"
  /\ last.ack = Success
  /\ teacherSocketId = NoSocket
  /\ Len(previousPolls) = 1
  /\ previousPolls[1].total = 1

====
